---- MODULE Spec2Model ----
(***************************************************************************)
(* Recovery Metrics Engine of the post-flood recovery platform.            *)
(*                                                                         *)
(*   SatelliteAIProcessor.run_survival_analysis                            *)
(*       (data_processing/satellite_data_processor_v3.py)                  *)
(*   SatelliteDataProcessor.calculate_recovery_metrics                     *)
(*       (data_processing/satellite_data_processor_v2.py)                  *)
(*                                                                         *)
(* Numbers.  NDVI values are held in hundredths (0.54 is 54).  The         *)
(* recovery threshold baseline * 0.9 is held in thousandths (9 * b), so    *)
(* "value >= threshold" is 10 * v >= 9 * b.  For the levels used here the  *)
(* IEEE double comparison of the program gives the same answer, ties       *)
(* included (0.54 >= 0.6 * 0.9, 0.63 >= 0.7 * 0.9, 0.45 >= 0.5 * 0.9).     *)
(* Quotients are exact fractions [kind |-> "num", num, den] in lowest      *)
(* terms.                                                                  *)
(*                                                                         *)
(* Grids.  The numpy operations of the scan are element-wise, so a grid    *)
(* of shape (height, width) is represented by the pixels of it that the    *)
(* model follows: every pixel inside the flood rectangle, and one pixel    *)
(* outside of it.                                                          *)
(***************************************************************************)
EXTENDS Integers, Sequences, FiniteSets, TLC

VARIABLES
    \* ---- run_survival_analysis: the object and the arguments
    kmf,              \* self.kmf: [available, fits] (fits = number of fit() calls)
    shape,            \* <<time_steps, height, width>> of ndvi_stack
    ndvi_stack,       \* [1..time_steps -> [pixel -> NDVI]]
    baseline_grid,    \* the baseline_ndvi argument: [pixel -> NDVI]
    \* ---- run_survival_analysis: locals
    sa_pc,            \* "idle", "call", "scan", "done"
    recovery_threshold,
    flood_mask,
    t_matrix,
    e_matrix,
    step,             \* the loop variable: number of steps scanned so far
    sa_result,        \* the returned value
    \* ---- calculate_recovery_metrics: the arguments
    ndvi_time_series, \* sequence of [date, mean_ndvi]
    flood_date,
    \* ---- calculate_recovery_metrics: locals
    crm_pc,           \* "idle", "call", "filtered", "rated", "done"
    post_flood,
    recovery_rate,
    polyfit_calls,    \* number of np.polyfit calls made
    crm_result,       \* the returned dictionary
    \* ---- process_time_series: the arguments
    pts_dates,        \* dates
    pts_ndvi,         \* ndvi_series: sequence of grids
    pts_ndwi,         \* ndwi_series: sequence of grids
    pts_radar,        \* radar_series: sequence of [vv_db |-> grid]
    \* ---- process_time_series: locals
    pts_pc,           \* "idle", "call", "loop", "done", "raised"
    pts_i,            \* the loop index i of enumerate(dates)
    pts_results,      \* results
    pts_return,       \* the returned DataFrame, as the sequence of its rows
    \* ---- process_flood_event, the caller of process_time_series
    pfe_args,         \* [flood_date, num_time_steps], or None without this caller
    pfe_pc,           \* "idle", "call", "series", "done", "raised"
    pfe_return,       \* self.processed_data as returned
    \* ---- calculate_ndvi / calculate_ndwi
    idx_fn,           \* "ndvi" or "ndwi": which of the two is called
    idx_a,            \* first band argument (red_band, or green_band)
    idx_b,            \* second band argument (nir_band)
    idx_pc,           \* "idle", "call", "summed", "masked", "done"
    denominator,
    idx_out,          \* the returned index grid
    \* ---- the API process: module state and the handler of /api/process-flood-event
    ProcessorClass,   \* "V3", "V2" or "None"
    KaplanMeierFitter, \* TRUE when lifelines could be imported
    processed_events, \* event_id -> stored event
    req_body,         \* the JSON body of the request
    req_pc,           \* "idle", "received", "once", "twice", "responded"
    req_results,      \* results: what the processor returned last
    response,         \* [status, body]
    \* ---- one processor instance used for a sequence of calls of the transforms
    inst_kmf,         \* self.kmf: whether there is a fitter, and the data of its last fit
    inst_heap,        \* the argument objects, by name
    inst_call,        \* the last call: the transform and the names of its arguments
    inst_return,      \* what the last call returned
    inst_memo         \* per call made so far: what it returned first, and how often it was made

vars == <<kmf, shape, ndvi_stack, baseline_grid, sa_pc, recovery_threshold,
          flood_mask, t_matrix, e_matrix, step, sa_result,
          ndvi_time_series, flood_date, crm_pc, post_flood, recovery_rate,
          polyfit_calls, crm_result,
          pts_dates, pts_ndvi, pts_ndwi, pts_radar, pts_pc, pts_i,
          pts_results, pts_return, pfe_args, pfe_pc, pfe_return,
          idx_fn, idx_a, idx_b, idx_pc, denominator, idx_out,
          ProcessorClass, KaplanMeierFitter, processed_events, req_body, req_pc,
          req_results, response,
          inst_kmf, inst_heap, inst_call, inst_return, inst_memo>>

sa_vars == <<kmf, shape, ndvi_stack, baseline_grid, sa_pc, recovery_threshold,
             flood_mask, t_matrix, e_matrix, step, sa_result>>

crm_vars == <<ndvi_time_series, flood_date, crm_pc, post_flood, recovery_rate,
              polyfit_calls, crm_result>>

pts_vars == <<pts_dates, pts_ndvi, pts_ndwi, pts_radar, pts_pc, pts_i,
              pts_results, pts_return, pfe_args, pfe_pc, pfe_return>>

idx_vars == <<idx_fn, idx_a, idx_b, idx_pc, denominator, idx_out>>

req_vars == <<ProcessorClass, KaplanMeierFitter, processed_events, req_body, req_pc,
              req_results, response>>

\* the variables of the other operations, for run_survival_analysis and
\* calculate_recovery_metrics
inst_vars == <<inst_kmf, inst_heap, inst_call, inst_return, inst_memo>>

ext_vars == <<pts_vars, idx_vars, req_vars, inst_vars>>

-----------------------------------------------------------------------------
(* Bounds of the model *)

\* longest NDVI stack (number of time steps)
MaxSteps == 3

\* how many columns of the grid reach into the flood rectangle
MaxCols == 2

\* most NDVI samples (time steps x followed pixels) in a stack
MaxCells == 12

\* longest time series handed to calculate_recovery_metrics
MaxRecords == 3

\* longest list of dates or grids handed to process_time_series
MaxDates == 2

-----------------------------------------------------------------------------
(* Values *)

NoneVal == [kind |-> "None"]

InfVal == [kind |-> "inf"]

Abs(n) == IF n < 0 THEN -n ELSE n

RECURSIVE GCD(_, _)
GCD(a, b) == IF b = 0 THEN a ELSE GCD(b, a % b)

\* the float n / d; a division by 0.0 of a numpy float gives inf, not an error
Frac(n, d) ==
    IF d = 0 THEN InfVal
    ELSE LET g == GCD(Abs(n), Abs(d))
             s == IF d < 0 THEN -1 ELSE 1
         IN  [kind |-> "num", num |-> (s * n) \div g, den |-> (s * d) \div g]

Num(n) == Frac(n, 1)

IsNum(x) == x.kind = "num"

FracLt(a, b) == a.num * b.den < b.num * a.den

FracLeq(a, b) == a.num * b.den <= b.num * a.den

FracMul(a, b) == Frac(a.num * b.num, a.den * b.den)

FracSub(a, b) == Frac(a.num * b.den - b.num * a.den, a.den * b.den)

FracDiv(a, b) == Frac(a.num * b.den, a.den * b.num)

FracMin(a, b) == IF FracLeq(a, b) THEN a ELSE b

RECURSIVE SumSeq(_)
SumSeq(s) == IF s = << >> THEN 0 ELSE Head(s) + SumSeq(Tail(s))

-----------------------------------------------------------------------------
(* run_survival_analysis: grids *)

\* flood_mask[150:350, 150:350] = True
FloodLo == 150

FloodHi == 350

\* the slice written 151:350
InFloodSliceOffByOne(i) == FloodLo < i /\ i < FloodHi

\* i is selected by the slice 150:350
InFloodSlice(i) == FloodLo <= i /\ i < FloodHi

\* the one pixel followed outside the flood rectangle
OutsidePixel == <<FloodLo - 1, FloodLo - 1>>

\* the pixels of a (height, width) grid that the model follows
Tracked(height, width) ==
    {OutsidePixel} \cup ((FloodLo .. (height - 1)) \X (FloodLo .. (width - 1)))

\* flood_mask = np.zeros((height, width), dtype=bool); flood_mask[150:350, 150:350] = True
FloodMask(height, width) ==
    [p \in Tracked(height, width) |-> InFloodSlice(p[1]) /\ InFloodSlice(p[2])]

\* recovery_threshold = baseline_ndvi * 0.9   (in thousandths)
RecoveryThreshold(baseline) == [p \in DOMAIN baseline |-> 9 * baseline[p]]

\* the comparison written the wrong way round
IsHealedReversed(v, th) == 10 * v <= th

\* current_ndvi >= recovery_threshold, for one pixel
IsHealed(v, th) == 10 * v >= th

\* newly_healed without the (e_matrix == 0) term
NewlyHealedAgain(current_ndvi, threshold, e, mask) ==
    {p \in DOMAIN current_ndvi : IsHealed(current_ndvi[p], threshold[p]) /\ mask[p]}

\* newly_healed with (e_matrix == 0) taken over the whole matrix: no pixel at all
\* observed so far
NewlyHealedIfNoneObserved(current_ndvi, threshold, e, mask) ==
    {p \in DOMAIN current_ndvi :
        /\ IsHealed(current_ndvi[p], threshold[p])
        /\ \A q \in DOMAIN e : e[q] = 0
        /\ mask[p]}

\* newly_healed without the flood_mask term
NewlyHealedUnmasked(current_ndvi, threshold, e, mask) ==
    {p \in DOMAIN current_ndvi : IsHealed(current_ndvi[p], threshold[p]) /\ e[p] = 0}

\* newly_healed = is_healed & (e_matrix == 0) & flood_mask
NewlyHealed(current_ndvi, threshold, e, mask) ==
    {p \in DOMAIN current_ndvi :
        IsHealed(current_ndvi[p], threshold[p]) /\ e[p] = 0 /\ mask[p]}

\* the 0-based loop index stored as it is
EventTimeZeroBased(s) == s

\* the value stored for a pixel that heals in iteration s of the loop
EventTime(s) == s + 1

\* one iteration of the loop over range(time_steps): the new (t_matrix, e_matrix)
ScanFrame(t, e, current_ndvi, threshold, mask, s) ==
    LET newly_healed == NewlyHealed(current_ndvi, threshold, e, mask)
    IN  [t |-> [p \in DOMAIN t |-> IF p \in newly_healed THEN EventTime(s) ELSE t[p]],
         e |-> [p \in DOMAIN e |-> IF p \in newly_healed THEN 1 ELSE e[p]]]

\* t_matrix filled with the last 0-based index instead of time_steps
InitialMatricesLastIndex(time_steps, height, width) ==
    [t |-> [p \in Tracked(height, width) |-> time_steps - 1],
     e |-> [p \in Tracked(height, width) |-> 0]]

\* np.full((height, width), time_steps) and np.zeros((height, width))
InitialMatrices(time_steps, height, width) ==
    [t |-> [p \in Tracked(height, width) |-> time_steps],
     e |-> [p \in Tracked(height, width) |-> 0]]

\* the whole loop, from iteration s on
RECURSIVE ScanFrom(_, _, _, _, _, _)
ScanFrom(m, stack, threshold, mask, s, time_steps) ==
    IF s >= time_steps THEN m
    ELSE ScanFrom(ScanFrame(m.t, m.e, stack[s + 1], threshold, mask, s),
                  stack, threshold, mask, s + 1, time_steps)

PixelBefore(p, q) == p[1] < q[1] \/ (p[1] = q[1] /\ p[2] < q[2])

\* the pixels of S in row-major order, the order of numpy's boolean indexing
RECURSIVE RowMajor(_)
RowMajor(S) ==
    IF S = {} THEN << >>
    ELSE LET first == CHOOSE p \in S : \A q \in S \ {p} : PixelBefore(p, q)
         IN  <<first>> \o RowMajor(S \ {first})

\* the whole matrix, flattened, instead of matrix[flood_mask]
BoolIndexAll(matrix, mask) ==
    LET ps == RowMajor(DOMAIN mask)
    IN  [i \in 1 .. Len(ps) |-> matrix[ps[i]]]

\* matrix[flood_mask]
BoolIndex(matrix, mask) ==
    LET ps == RowMajor({p \in DOMAIN mask : mask[p]})
    IN  [i \in 1 .. Len(ps) |-> matrix[ps[i]]]

-----------------------------------------------------------------------------
(* KaplanMeierFitter.fit and median_survival_time_ (lifelines) *)

\* the index of the survival function: 0 and every duration
KMTimeline(durations) == {0} \cup {durations[i] : i \in DOMAIN durations}

\* subjects still at risk just before time u
KMAtRisk(durations, u) == Cardinality({i \in DOMAIN durations : durations[i] >= u})

\* events observed at time u
KMDeaths(durations, events, u) ==
    Cardinality({i \in DOMAIN durations : durations[i] = u /\ events[i] = 1})

RECURSIVE KMProduct(_, _, _)
KMProduct(durations, events, times) ==
    IF times = {} THEN Num(1)
    ELSE LET u == CHOOSE x \in times : TRUE
             n == KMAtRisk(durations, u)
             d == KMDeaths(durations, events, u)
             factor == IF n = 0 THEN Num(1) ELSE Frac(n - d, n)
         IN  FracMul(factor, KMProduct(durations, events, times \ {u}))

\* the product-limit estimate S(t)
KMSurvival(durations, events, t) ==
    KMProduct(durations, events, {u \in KMTimeline(durations) : u <= t})

\* the 0.5 level that the median is read at
KMReached(s) == FracLeq(s, Frac(1, 2))

\* median_survival_time_: the first time with S(t) <= 0.5, inf when there is none
KMMedian(durations, events) ==
    LET hit == {t \in KMTimeline(durations) : KMReached(KMSurvival(durations, events, t))}
    IN  IF hit = {} THEN InfVal
        ELSE Num(CHOOSE t \in hit : \A u \in hit : t <= u)

\* the order of median times, inf being the largest
MedLeq(a, b) == b = InfVal \/ (a # InfVal /\ FracLeq(a, b))

\* the guard written len(flooded_t) >= 0
ShouldFitAlways(n) == n >= 0

\* fit() called without event_observed: every duration counts as an event
FitEventsAllObserved(flooded_e) == [i \in DOMAIN flooded_e |-> 1]

\* event_observed=flooded_e
FitEvents(flooded_e) == flooded_e

\* if len(flooded_t) > 0
ShouldFit(n) == n > 0

\* np.mean(flooded_e) * 100
Confidence(flooded_e) == Frac(100 * SumSeq(flooded_e), Len(flooded_e))

\* lines 91-108: what is returned after the loop, and whether fit() is called
SurvivalReturn(t, e, mask) ==
    LET flooded_t == BoolIndex(t, mask)
        flooded_e == BoolIndex(e, mask)
        fit == ShouldFit(Len(flooded_t))
    IN  [fit |-> fit,
         value |-> [kind |-> "dict",
                    median_recovery_time |->
                        IF fit THEN KMMedian(flooded_t, FitEvents(flooded_e)) ELSE Num(0),
                    confidence_score |->
                        IF fit THEN Confidence(flooded_e) ELSE Num(0),
                    recovery_map |-> t]]

\* run_survival_analysis as a function of its arguments, the fitter being available
SurvivalAnalysis(stack, baseline, shp) ==
    LET mask == FloodMask(shp[2], shp[3])
        m == ScanFrom(InitialMatrices(shp[1], shp[2], shp[3]), stack,
                      RecoveryThreshold(baseline), mask, 0, shp[1])
    IN  SurvivalReturn(m.t, m.e, mask).value

-----------------------------------------------------------------------------
(* run_survival_analysis: the inputs of the model *)

\* NDVI values of a stack, in hundredths: below, and at or above, the thresholds
Levels == {40, 54}

\* baseline NDVI values: thresholds 0.45, 0.54 and 0.63
BaselineLevels == {50, 60, 70}

\* a scalar baseline (broadcast), or a baseline grid that differs between columns
BaselineGrids(pixels) ==
    {[p \in pixels |-> b] : b \in BaselineLevels}
        \cup {[p \in pixels |-> IF p[2] % 2 = 0 THEN 60 ELSE 70]}

Shapes ==
    {shp \in (0 .. MaxSteps) \X {FloodLo, FloodLo + 1} \X (FloodLo .. (FloodLo + MaxCols)) :
        shp[1] * Cardinality(Tracked(shp[2], shp[3])) <= MaxCells}

Stacks(shp) == [1 .. shp[1] -> [Tracked(shp[2], shp[3]) -> Levels]]

\* the scenario of a flood mask of 4 pixels: a 152 x 152 grid, 3 steps
ScenarioShape == <<3, FloodLo + 2, FloodLo + 2>>

ScenarioBaseline == [p \in Tracked(ScenarioShape[2], ScenarioShape[3]) |-> 60]

ScenarioFrames == << <<50, 50, 50, 50>>, <<55, 40, 55, 40>>, <<60, 60, 60, 60>> >>

\* the scenario's stack, the pixel outside the mask holding the value v throughout
ScenarioStack(v) ==
    LET ps == RowMajor(Tracked(ScenarioShape[2], ScenarioShape[3]) \ {OutsidePixel})
    IN  [s \in 1 .. 3 |->
            [p \in Tracked(ScenarioShape[2], ScenarioShape[3]) |->
                IF p = OutsidePixel THEN v
                ELSE ScenarioFrames[s][CHOOSE i \in 1 .. 4 : ps[i] = p]]]

SAIdle ==
    /\ kmf = [available |-> FALSE, fits |-> 0]
    /\ shape = <<0, 0, 0>>
    /\ ndvi_stack = << >>
    /\ baseline_grid = << >>
    /\ sa_pc = "idle"
    /\ recovery_threshold = << >>
    /\ flood_mask = << >>
    /\ t_matrix = << >>
    /\ e_matrix = << >>
    /\ step = 0
    /\ sa_result = NoneVal

CRMIdle ==
    /\ ndvi_time_series = << >>
    /\ flood_date = 0
    /\ crm_pc = "idle"
    /\ post_flood = << >>
    /\ recovery_rate = Num(0)
    /\ polyfit_calls = 0
    /\ crm_result = NoneVal

PTSIdle ==
    /\ pts_dates = << >>
    /\ pts_ndvi = << >>
    /\ pts_ndwi = << >>
    /\ pts_radar = << >>
    /\ pts_pc = "idle"
    /\ pts_i = 0
    /\ pts_results = << >>
    /\ pts_return = NoneVal
    /\ pfe_args = NoneVal
    /\ pfe_pc = "idle"
    /\ pfe_return = NoneVal

IDXIdle ==
    /\ idx_fn = "ndvi"
    /\ idx_a = << >>
    /\ idx_b = << >>
    /\ idx_pc = "idle"
    /\ denominator = << >>
    /\ idx_out = NoneVal

\* the API process is not running
REQIdle ==
    /\ ProcessorClass = "None"
    /\ KaplanMeierFitter = FALSE
    /\ processed_events = << >>
    /\ req_body = NoneVal
    /\ req_pc = "idle"
    /\ req_results = NoneVal
    /\ response = NoneVal

\* no processor instance is in use
INSTIdle ==
    /\ inst_kmf = NoneVal
    /\ inst_heap = << >>
    /\ inst_call = NoneVal
    /\ inst_return = NoneVal
    /\ inst_memo = << >>

\* no other operation is in progress
ExtIdle == PTSIdle /\ IDXIdle /\ REQIdle /\ INSTIdle

\* __init__: self.kmf = KaplanMeierFitter() if KaplanMeierFitter else None
InitSurvival ==
    /\ \E a \in BOOLEAN : kmf = [available |-> a, fits |-> 0]
    /\ \/ /\ shape \in Shapes
          /\ ndvi_stack \in Stacks(shape)
          /\ baseline_grid \in BaselineGrids(Tracked(shape[2], shape[3]))
       \/ /\ shape = ScenarioShape
          /\ \E v \in {40, 60} : ndvi_stack = ScenarioStack(v)
          /\ baseline_grid = ScenarioBaseline
    /\ sa_pc = "call"
    /\ recovery_threshold = << >>
    /\ flood_mask = << >>
    /\ t_matrix = << >>
    /\ e_matrix = << >>
    /\ step = 0
    /\ sa_result = NoneVal
    /\ CRMIdle
    /\ ExtIdle

-----------------------------------------------------------------------------
(* run_survival_analysis: the steps *)

\* if self.kmf is None: return None
SA_ReturnNone ==
    /\ sa_pc = "call"
    /\ ~kmf.available
    /\ sa_result' = NoneVal
    /\ sa_pc' = "done"
    /\ UNCHANGED <<kmf, shape, ndvi_stack, baseline_grid, recovery_threshold,
                   flood_mask, t_matrix, e_matrix, step>>
    /\ UNCHANGED crm_vars
    /\ UNCHANGED ext_vars

\* lines 64-76: the threshold, the flood mask and the two matrices
SA_Setup ==
    /\ sa_pc = "call"
    /\ kmf.available
    /\ recovery_threshold' = RecoveryThreshold(baseline_grid)
    /\ flood_mask' = FloodMask(shape[2], shape[3])
    /\ t_matrix' = InitialMatrices(shape[1], shape[2], shape[3]).t
    /\ e_matrix' = InitialMatrices(shape[1], shape[2], shape[3]).e
    /\ step' = 0
    /\ sa_pc' = "scan"
    /\ UNCHANGED <<kmf, shape, ndvi_stack, baseline_grid, sa_result>>
    /\ UNCHANGED crm_vars
    /\ UNCHANGED ext_vars

\* lines 79-89: one iteration of the loop
SA_ScanStep ==
    /\ sa_pc = "scan"
    /\ step < shape[1]
    /\ LET m == ScanFrame(t_matrix, e_matrix, ndvi_stack[step + 1],
                          recovery_threshold, flood_mask, step)
       IN  /\ t_matrix' = m.t
           /\ e_matrix' = m.e
    /\ step' = step + 1
    /\ UNCHANGED <<kmf, shape, ndvi_stack, baseline_grid, sa_pc,
                   recovery_threshold, flood_mask, sa_result>>
    /\ UNCHANGED crm_vars
    /\ UNCHANGED ext_vars

\* lines 91-108: the fit on the flooded pixels and the returned dictionary
SA_FitAndReturn ==
    /\ sa_pc = "scan"
    /\ step = shape[1]
    /\ LET r == SurvivalReturn(t_matrix, e_matrix, flood_mask)
       IN  /\ kmf' = [kmf EXCEPT !.fits = IF r.fit THEN @ + 1 ELSE @]
           /\ sa_result' = r.value
    /\ sa_pc' = "done"
    /\ UNCHANGED <<shape, ndvi_stack, baseline_grid, recovery_threshold,
                   flood_mask, t_matrix, e_matrix, step>>
    /\ UNCHANGED crm_vars
    /\ UNCHANGED ext_vars

NextSurvival ==
    \/ SA_ReturnNone
    \/ SA_Setup
    \/ SA_ScanStep
    \/ SA_FitAndReturn

SpecSurvival == InitSurvival /\ [][NextSurvival]_vars

-----------------------------------------------------------------------------
(* calculate_recovery_metrics *)

\* baseline_ndvi = 0.6, in hundredths
BaselineNdvi == 60

\* the filter written with the comparison the wrong way round
IsPostFloodReversed(date, fd) == date <= fd

\* the record dated on the flood date left out
IsPostFloodStrict(date, fd) == date > fd

\* ndvi_time_series['date'] >= flood_date, for one record
IsPostFlood(date, fd) == date >= fd

\* post_flood = ndvi_time_series[ndvi_time_series['date'] >= flood_date]
PostFlood(series, fd) == SelectSeq(series, LAMBDA r : IsPostFlood(r.date, fd))

\* the dictionary returned when post_flood is empty (lines 222-226)
EmptyMetrics ==
    [recovery_rate |-> Num(0),
     time_to_recovery_days |-> NoneVal,
     recovery_percentage |-> Num(0)]

\* if len(post_flood) > 1
NeedsRegression(n) == n > 1

\* days_since_flood = [(d - flood_date).days for d in post_flood['date']]
DaysSinceFlood(pf, fd) == [i \in DOMAIN pf |-> pf[i].date - fd]

\* np.polyfit(x, y, 1)[1]: the intercept taken instead of the slope
PolyfitIntercept(x, y) ==
    LET n == Len(x)
        sx == SumSeq(x)
        sy == SumSeq(y)
        sxy == SumSeq([i \in DOMAIN x |-> x[i] * y[i]])
        sxx == SumSeq([i \in DOMAIN x |-> x[i] * x[i]])
    IN  Frac(sy * sxx - sx * sxy, n * sxx - sx * sx)

\* np.polyfit(x, y, 1)[0]: the least-squares slope of y against x
PolyfitSlope(x, y) ==
    LET n == Len(x)
        sx == SumSeq(x)
        sy == SumSeq(y)
        sxy == SumSeq([i \in DOMAIN x |-> x[i] * y[i]])
        sxx == SumSeq([i \in DOMAIN x |-> x[i] * x[i]])
    IN  Frac(n * sxy - sx * sy, n * sxx - sx * sx)

\* lines 229-233
RecoveryRate(pf, fd) ==
    IF NeedsRegression(Len(pf))
    THEN PolyfitSlope(DaysSinceFlood(pf, fd), [i \in DOMAIN pf |-> pf[i].mean_ndvi])
    ELSE Num(0)

\* .iloc[0] instead of .iloc[-1]
CurrentNdviFirst(pf) == pf[1].mean_ndvi

\* post_flood['mean_ndvi'].iloc[-1]
CurrentNdvi(pf) == pf[Len(pf)].mean_ndvi

\* the percentage without min(100, ...)
RecoveryPercentageUnclamped(current, baseline) ==
    IF baseline > 0 THEN Frac(100 * current, baseline) ELSE Num(0)

\* min(100, (current_ndvi / baseline_ndvi) * 100) if baseline_ndvi > 0 else 0
RecoveryPercentage(current, baseline) ==
    IF baseline > 0 THEN FracMin(Num(100), Frac(100 * current, baseline)) ELSE Num(0)

\* the test written with "or"
ShouldExtrapolateEither(rate, current, baseline) ==
    FracLt(Num(0), rate) \/ current < baseline

\* the test written with >= for the rate
ShouldExtrapolateFromZero(rate, current, baseline) ==
    FracLeq(Num(0), rate) /\ current < baseline

\* if recovery_rate > 0 and current_ndvi < baseline_ndvi
ShouldExtrapolate(rate, current, baseline) ==
    FracLt(Num(0), rate) /\ current < baseline

\* lines 241-244
DaysToRecovery(rate, current, baseline) ==
    IF ShouldExtrapolate(rate, current, baseline)
    THEN FracDiv(Num(baseline - current), rate)
    ELSE NoneVal

\* lines 236-252: the dictionary returned for a non-empty post_flood
FullMetrics(pf, rate) ==
    LET current_ndvi == CurrentNdvi(pf)
    IN  [recovery_rate |-> rate,
         time_to_recovery_days |-> DaysToRecovery(rate, current_ndvi, BaselineNdvi),
         recovery_percentage |-> RecoveryPercentage(current_ndvi, BaselineNdvi),
         current_ndvi |-> Num(current_ndvi),
         baseline_ndvi |-> Num(BaselineNdvi)]

\* acquisition dates, in days, and mean NDVI values, in hundredths
Dates == {-30, 0, 30, 60}

MeanLevels == {30, 60, 75}

FloodDates == {0, 30}

Records == [date : Dates, mean_ndvi : MeanLevels]

\* time series of 1 to MaxRecords records, in any order, no date twice
TimeSeries ==
    UNION {{ts \in [1 .. n -> Records] :
                \A i, j \in 1 .. n : i # j => ts[i].date # ts[j].date} :
           n \in 1 .. MaxRecords}

\* the scenario series: mean NDVI 0.3, 0.35, 0.4, 0.45 at days 0, 30, 60, 90
\* after the flood date fd
ScenarioSeries(fd) ==
    [i \in 1 .. 4 |-> [date |-> fd + 30 * (i - 1), mean_ndvi |-> 30 + 5 * (i - 1)]]

InitMetrics ==
    /\ flood_date \in FloodDates
    /\ \/ ndvi_time_series \in TimeSeries
       \/ ndvi_time_series = ScenarioSeries(flood_date)
    /\ crm_pc = "call"
    /\ post_flood = << >>
    /\ recovery_rate = Num(0)
    /\ polyfit_calls = 0
    /\ crm_result = NoneVal
    /\ SAIdle
    /\ ExtIdle

\* line 219
CRM_Filter ==
    /\ crm_pc = "call"
    /\ post_flood' = PostFlood(ndvi_time_series, flood_date)
    /\ crm_pc' = "filtered"
    /\ UNCHANGED <<ndvi_time_series, flood_date, recovery_rate, polyfit_calls,
                   crm_result>>
    /\ UNCHANGED sa_vars
    /\ UNCHANGED ext_vars

\* lines 221-226
CRM_ReturnEmpty ==
    /\ crm_pc = "filtered"
    /\ Len(post_flood) = 0
    /\ crm_result' = EmptyMetrics
    /\ crm_pc' = "done"
    /\ UNCHANGED <<ndvi_time_series, flood_date, post_flood, recovery_rate,
                   polyfit_calls>>
    /\ UNCHANGED sa_vars
    /\ UNCHANGED ext_vars

\* lines 229-233
CRM_Rate ==
    /\ crm_pc = "filtered"
    /\ Len(post_flood) # 0
    /\ recovery_rate' = RecoveryRate(post_flood, flood_date)
    /\ polyfit_calls' =
            IF NeedsRegression(Len(post_flood)) THEN polyfit_calls + 1
            ELSE polyfit_calls
    /\ crm_pc' = "rated"
    /\ UNCHANGED <<ndvi_time_series, flood_date, post_flood, crm_result>>
    /\ UNCHANGED sa_vars
    /\ UNCHANGED ext_vars

\* lines 236-252
CRM_Return ==
    /\ crm_pc = "rated"
    /\ crm_result' = FullMetrics(post_flood, recovery_rate)
    /\ crm_pc' = "done"
    /\ UNCHANGED <<ndvi_time_series, flood_date, post_flood, recovery_rate,
                   polyfit_calls>>
    /\ UNCHANGED sa_vars
    /\ UNCHANGED ext_vars

NextMetrics ==
    \/ CRM_Filter
    \/ CRM_ReturnEmpty
    \/ CRM_Rate
    \/ CRM_Return

SpecMetrics == InitMetrics /\ [][NextMetrics]_vars

-----------------------------------------------------------------------------
(* process_time_series, and process_flood_event that calls it *)

\* not-a-number
NaNVal == [kind |-> "nan"]

\* the cells of a grid that are not NaN
ValidCells(grid) == {i \in DOMAIN grid : grid[i] # NaNVal}

RECURSIVE SumCells(_, _)
SumCells(grid, cells) ==
    IF cells = {} THEN 0
    ELSE LET i == CHOOSE x \in cells : TRUE
         IN  grid[i].num + SumCells(grid, cells \ {i})

RECURSIVE SumSquares(_, _)
SumSquares(grid, cells) ==
    IF cells = {} THEN 0
    ELSE LET i == CHOOSE x \in cells : TRUE
         IN  grid[i].num * grid[i].num + SumSquares(grid, cells \ {i})

\* np.nanmean(grid): NaN for a grid with no valid cell
NanMean(grid) ==
    IF ValidCells(grid) = {} THEN NaNVal
    ELSE Frac(SumCells(grid, ValidCells(grid)), Cardinality(ValidCells(grid)))

\* np.nanstd(grid): the square root of the variance of the valid cells
NanStd(grid) ==
    LET cells == ValidCells(grid)
        n == Cardinality(cells)
        sum == SumCells(grid, cells)
    IN  IF cells = {} THEN NaNVal
        ELSE [kind |-> "sqrt",
              of |-> Frac(n * SumSquares(grid, cells) - sum * sum, n * n)]

\* the test written "and": only both lists empty is refused
IsEmptyInputBoth(dates, ndvi_series) == Len(dates) = 0 /\ Len(ndvi_series) = 0

\* if not dates or not ndvi_series
IsEmptyInput(dates, ndvi_series) == Len(dates) = 0 \/ Len(ndvi_series) = 0

\* i < len(series), for the 0-based index i
HasFrame(i, series) == i < Len(series)

\* lines 187-201: the row of the date with 0-based index i
TimeSeriesRow(i, dates, ndvi_series, ndwi_series, radar_series) ==
    [date |-> dates[i + 1],
     mean_ndvi |-> NanMean(ndvi_series[i + 1]),
     std_ndvi |-> NanStd(ndvi_series[i + 1]),
     mean_ndwi |->
        IF i < Len(ndwi_series) THEN NanMean(ndwi_series[i + 1]) ELSE NoneVal,
     mean_vv_backscatter |->
        IF i < Len(radar_series) THEN NanMean(radar_series[i + 1].vv_db) ELSE NoneVal]

\* the row put in front of the rows collected so far
AppendRowInFront(results, i, dates, ndvi_series, ndwi_series, radar_series) ==
    IF HasFrame(i, ndvi_series)
    THEN <<TimeSeriesRow(i, dates, ndvi_series, ndwi_series, radar_series)>> \o results
    ELSE results

\* lines 185-202: results after the iteration for index i
AppendRow(results, i, dates, ndvi_series, ndwi_series, radar_series) ==
    IF HasFrame(i, ndvi_series)
    THEN Append(results, TimeSeriesRow(i, dates, ndvi_series, ndwi_series, radar_series))
    ELSE results

\* pd.DataFrame(results)
DataFrame(rows) == [kind |-> "DataFrame", rows |-> rows]

\* calculate_recovery_metrics as a function of its arguments
CalculateRecoveryMetrics(series, fd) ==
    LET pf == PostFlood(series, fd)
    IN  IF Len(pf) = 0 THEN EmptyMetrics ELSE FullMetrics(pf, RecoveryRate(pf, fd))

\* the date and mean_ndvi columns of a DataFrame whose means are whole hundredths
MetricsColumns(rows) ==
    [i \in DOMAIN rows |->
        [date |-> rows[i].date, mean_ndvi |-> rows[i].mean_ndvi.num \div rows[i].mean_ndvi.den]]

\* dates = [flood_date + timedelta(days=i*30) for i in range(num_time_steps)]
EventDates(fd, n) == [i \in 1 .. n |-> fd + 30 * (i - 1)]

\* acquisition dates, in days
AcqDates == {0, 30, 60}

\* grids of two cells, in hundredths
NdviGrids == {<<Num(30), Num(60)>>, <<NaNVal, Num(60)>>, <<NaNVal, NaNVal>>}

\* the simulated grids of process_flood_event have no NaN cell
SimulatedGrids == {<<Num(30), Num(60)>>, <<Num(60), Num(90)>>}

WaterGrid == <<Num(-20), Num(10)>>

RadarMetrics == [vv_db |-> <<Num(-12), Num(-8)>>]

SeqsUpTo(S, n) == UNION {[1 .. k -> S] : k \in 0 .. n}

PFEIdle == pfe_args = NoneVal /\ pfe_pc = "idle" /\ pfe_return = NoneVal

\* process_time_series called with arguments of any lengths, or
\* process_flood_event called with a number of time steps
InitAggregate ==
    /\ \/ /\ pts_dates \in SeqsUpTo(AcqDates, MaxDates)
          /\ pts_ndvi \in SeqsUpTo(NdviGrids, MaxDates)
          /\ pts_ndwi \in SeqsUpTo({WaterGrid}, MaxDates)
          /\ pts_radar \in SeqsUpTo({RadarMetrics}, MaxDates)
          /\ pts_pc = "call"
          /\ PFEIdle
       \/ /\ pts_dates = << >>
          /\ pts_ndvi = << >>
          /\ pts_ndwi = << >>
          /\ pts_radar = << >>
          /\ pts_pc = "idle"
          /\ \E n \in 0 .. MaxDates : pfe_args = [flood_date |-> 0, num_time_steps |-> n]
          /\ pfe_pc = "call"
          /\ pfe_return = NoneVal
    /\ pts_i = 0
    /\ pts_results = << >>
    /\ pts_return = NoneVal
    /\ SAIdle
    /\ CRMIdle
    /\ IDXIdle
    /\ REQIdle
    /\ INSTIdle

\* lines 178-179: raise ValueError("Time series data cannot be empty")
PTS_RaiseEmpty ==
    /\ pts_pc = "call"
    /\ IsEmptyInput(pts_dates, pts_ndvi)
    /\ pts_pc' = "raised"
    /\ UNCHANGED <<pts_dates, pts_ndvi, pts_ndwi, pts_radar, pts_i, pts_results,
                   pts_return, pfe_args, pfe_pc, pfe_return>>
    /\ UNCHANGED <<sa_vars, crm_vars, idx_vars, req_vars, inst_vars>>

\* line 183
PTS_Begin ==
    /\ pts_pc = "call"
    /\ ~IsEmptyInput(pts_dates, pts_ndvi)
    /\ pts_results' = << >>
    /\ pts_i' = 0
    /\ pts_pc' = "loop"
    /\ UNCHANGED <<pts_dates, pts_ndvi, pts_ndwi, pts_radar, pts_return,
                   pfe_args, pfe_pc, pfe_return>>
    /\ UNCHANGED <<sa_vars, crm_vars, idx_vars, req_vars, inst_vars>>

\* lines 185-202: one iteration of the loop over enumerate(dates)
PTS_Iterate ==
    /\ pts_pc = "loop"
    /\ pts_i < Len(pts_dates)
    /\ pts_results' = AppendRow(pts_results, pts_i, pts_dates, pts_ndvi, pts_ndwi, pts_radar)
    /\ pts_i' = pts_i + 1
    /\ UNCHANGED <<pts_dates, pts_ndvi, pts_ndwi, pts_radar, pts_pc, pts_return,
                   pfe_args, pfe_pc, pfe_return>>
    /\ UNCHANGED <<sa_vars, crm_vars, idx_vars, req_vars, inst_vars>>

\* line 204
PTS_Return ==
    /\ pts_pc = "loop"
    /\ pts_i = Len(pts_dates)
    /\ pts_return' = DataFrame(pts_results)
    /\ pts_pc' = "done"
    /\ UNCHANGED <<pts_dates, pts_ndvi, pts_ndwi, pts_radar, pts_i, pts_results,
                   pfe_args, pfe_pc, pfe_return>>
    /\ UNCHANGED <<sa_vars, crm_vars, idx_vars, req_vars, inst_vars>>

\* process_flood_event, lines 266-288: the simulated series, and the call
PFE_BuildSeries ==
    /\ pfe_pc = "call"
    /\ pts_dates' = EventDates(pfe_args.flood_date, pfe_args.num_time_steps)
    /\ pts_ndvi' \in [1 .. pfe_args.num_time_steps -> SimulatedGrids]
    /\ pts_ndwi' = [i \in 1 .. pfe_args.num_time_steps |-> WaterGrid]
    /\ pts_radar' = [i \in 1 .. pfe_args.num_time_steps |-> RadarMetrics]
    /\ pts_pc' = "call"
    /\ pfe_pc' = "series"
    /\ UNCHANGED <<pts_i, pts_results, pts_return, pfe_args, pfe_return>>
    /\ UNCHANGED <<sa_vars, crm_vars, idx_vars, req_vars, inst_vars>>

\* process_flood_event, lines 291-305: the metrics and the returned dictionary
PFE_Finish ==
    /\ pfe_pc = "series"
    /\ pts_pc = "done"
    /\ pfe_return' =
        [kind |-> "dict",
         ndvi |-> pts_ndvi[1],        \* frame 0 is the index grid itself: its noise is scaled by 0
         ndwi |-> WaterGrid,
         radar_metrics |-> RadarMetrics,
         time_series |-> pts_return,
         recovery_metrics |->
            CalculateRecoveryMetrics(MetricsColumns(pts_return.rows), pfe_args.flood_date),
         dates |-> pts_dates]
    /\ pfe_pc' = "done"
    /\ UNCHANGED <<pts_dates, pts_ndvi, pts_ndwi, pts_radar, pts_pc, pts_i,
                   pts_results, pts_return, pfe_args>>
    /\ UNCHANGED <<sa_vars, crm_vars, idx_vars, req_vars, inst_vars>>

\* the ValueError of process_time_series is not caught by process_flood_event
PFE_Propagate ==
    /\ pfe_pc = "series"
    /\ pts_pc = "raised"
    /\ pfe_pc' = "raised"
    /\ UNCHANGED <<pts_dates, pts_ndvi, pts_ndwi, pts_radar, pts_pc, pts_i,
                   pts_results, pts_return, pfe_args, pfe_return>>
    /\ UNCHANGED <<sa_vars, crm_vars, idx_vars, req_vars, inst_vars>>

NextAggregate ==
    \/ PTS_RaiseEmpty
    \/ PTS_Begin
    \/ PTS_Iterate
    \/ PTS_Return
    \/ PFE_BuildSeries
    \/ PFE_Finish
    \/ PFE_Propagate

SpecAggregate == InitAggregate /\ [][NextAggregate]_vars

-----------------------------------------------------------------------------
(* calculate_ndvi and calculate_ndwi *)

\* largest absolute band value of a cell
MaxBand == 2

\* nir_band + red_band, or green_band + nir_band: the sum of the two arguments
BandSum(a, b) == [i \in DOMAIN a |-> Num(a[i] + b[i])]

\* the zero denominators left as they are
ZeroToNaNOmitted(den) == den

\* np.where(denominator == 0, np.nan, denominator)
ZeroToNaN(den) == [i \in DOMAIN den |-> IF den[i] = Num(0) THEN NaNVal ELSE den[i]]

\* nir_band - red_band for calculate_ndvi(red_band, nir_band), and
\* green_band - nir_band for calculate_ndwi(green_band, nir_band)
BandDifference(fn, a, b) ==
    [i \in DOMAIN a |-> IF fn = "ndvi" THEN b[i] - a[i] ELSE a[i] - b[i]]

\* the float division of numpy: x / nan = nan, 0 / 0 = nan, x / 0 = inf
FloatDivide(x, d) ==
    IF d = NaNVal THEN NaNVal
    ELSE IF d = Num(0) THEN (IF x = 0 THEN NaNVal ELSE InfVal)
    ELSE FracDiv(Num(x), d)

\* the two operands of the division exchanged
QuotientSwapped(difference, den) ==
    [i \in DOMAIN den |->
        IF den[i] = NaNVal THEN NaNVal
        ELSE IF difference[i] = 0 THEN (IF den[i] = Num(0) THEN NaNVal ELSE InfVal)
        ELSE FracDiv(den[i], Num(difference[i]))]

\* (nir_band - red_band) / denominator, cell by cell
Quotient(difference, den) == [i \in DOMAIN den |-> FloatDivide(difference[i], den[i])]

BandValues == (-MaxBand) .. MaxBand

\* band grids of two cells
BandGrids == [1 .. 2 -> BandValues]

InitIndex ==
    /\ idx_fn \in {"ndvi", "ndwi"}
    /\ idx_a \in BandGrids
    /\ idx_b \in BandGrids
    /\ idx_pc = "call"
    /\ denominator = << >>
    /\ idx_out = NoneVal
    /\ SAIdle
    /\ CRMIdle
    /\ PTSIdle
    /\ REQIdle
    /\ INSTIdle

\* line 112 (131): denominator = nir_band + red_band
IDX_Sum ==
    /\ idx_pc = "call"
    /\ denominator' = BandSum(idx_a, idx_b)
    /\ idx_pc' = "summed"
    /\ UNCHANGED <<idx_fn, idx_a, idx_b, idx_out>>
    /\ UNCHANGED <<sa_vars, crm_vars, pts_vars, req_vars, inst_vars>>

\* line 114 (132)
IDX_ZeroToNaN ==
    /\ idx_pc = "summed"
    /\ denominator' = ZeroToNaN(denominator)
    /\ idx_pc' = "masked"
    /\ UNCHANGED <<idx_fn, idx_a, idx_b, idx_out>>
    /\ UNCHANGED <<sa_vars, crm_vars, pts_vars, req_vars, inst_vars>>

\* lines 115-116 (133-134): the division, and the return
IDX_Divide ==
    /\ idx_pc = "masked"
    /\ idx_out' = Quotient(BandDifference(idx_fn, idx_a, idx_b), denominator)
    /\ idx_pc' = "done"
    /\ UNCHANGED <<idx_fn, idx_a, idx_b, denominator>>
    /\ UNCHANGED <<sa_vars, crm_vars, pts_vars, req_vars, inst_vars>>

NextIndex ==
    \/ IDX_Sum
    \/ IDX_ZeroToNaN
    \/ IDX_Divide

SpecIndex == InitIndex /\ [][NextIndex]_vars

-----------------------------------------------------------------------------
(* app.py: the handler of POST /api/process-flood-event, and the processors *)

\* an exception leaving a call
RaisedVal == [kind |-> "raised"]

\* the loop of process_time_series from index i on
RECURSIVE CollectRows(_, _, _, _, _, _)
CollectRows(rows, i, dates, ndvi_series, ndwi_series, radar_series) ==
    IF i = Len(dates) THEN rows
    ELSE CollectRows(AppendRow(rows, i, dates, ndvi_series, ndwi_series, radar_series),
                     i + 1, dates, ndvi_series, ndwi_series, radar_series)

\* process_time_series as a function of its arguments
ProcessTimeSeries(dates, ndvi_series, ndwi_series, radar_series) ==
    IF IsEmptyInput(dates, ndvi_series) THEN RaisedVal
    ELSE DataFrame(CollectRows(<< >>, 0, dates, ndvi_series, ndwi_series, radar_series))

\* V2 process_flood_event as a function of its arguments and of the simulated frames
ProcessFloodEvent(fd, n, ndvi_series) ==
    LET dates == EventDates(fd, n)
        time_series_df == ProcessTimeSeries(dates, ndvi_series,
                                            [i \in 1 .. n |-> WaterGrid],
                                            [i \in 1 .. n |-> RadarMetrics])
    IN  IF time_series_df = RaisedVal THEN RaisedVal
        ELSE [kind |-> "dict",
              ndvi |-> ndvi_series[1],
              ndwi |-> WaterGrid,
              radar_metrics |-> RadarMetrics,
              time_series |-> time_series_df,
              recovery_metrics |->
                  CalculateRecoveryMetrics(MetricsColumns(time_series_df.rows), fd),
              dates |-> dates]

\* the test left out: the fitter is taken to be there
KmfIsNoneNever(available) == FALSE

\* self.kmf is None, for self.kmf = KaplanMeierFitter() if KaplanMeierFitter else None
KmfIsNone(available) == ~available

\* run_survival_analysis as a function of its arguments and of the import of lifelines
RunSurvivalAnalysis(available, stack, baseline, shp) ==
    IF KmfIsNone(available) THEN NoneVal ELSE SurvivalAnalysis(stack, baseline, shp)

\* a frame of the stack as a grid of cells
FrameGrid(frame, shp) ==
    LET order == RowMajor(Tracked(shp[2], shp[3]))
    IN  [k \in 1 .. Len(order) |-> Num(frame[order[k]])]

\* V3 process_flood_event_ai as a function of its arguments and of the simulated stack
ProcessFloodEventAI(available, fd, n, stack, baseline, shp) ==
    LET frames == [i \in 1 .. n |-> FrameGrid(stack[i], shp)]
        time_series_df == ProcessTimeSeries(EventDates(fd, n), frames, frames,
                                            [i \in 1 .. n |-> RadarMetrics])
    IN  IF time_series_df = RaisedVal THEN RaisedVal
        ELSE [kind |-> "dict",
              ndvi |-> baseline,
              ndwi |-> WaterGrid,
              time_series |-> time_series_df,
              recovery_metrics |->
                  CalculateRecoveryMetrics(MetricsColumns(time_series_df.rows), fd),
              ai_metrics |-> RunSurvivalAnalysis(available, stack, baseline, shp)]

\* hasattr(processor, 'process_flood_event_ai')
HasAIMethod(cls) == cls = "V3"

\* the grid of a request: one pixel outside the flood mask and one inside
RequestShape(n) == <<n, FloodLo + 1, FloodLo + 1>>

\* what the call of the processor can give, the simulated data being random
CallProcessor(cls, available, fd, n) ==
    IF HasAIMethod(cls)
    THEN {ProcessFloodEventAI(available, fd, n, stack, baseline, RequestShape(n)) :
            stack \in Stacks(RequestShape(n)),
            baseline \in BaselineGrids(Tracked(FloodLo + 1, FloodLo + 1))}
    ELSE {ProcessFloodEvent(fd, n, ndvi_series) :
            ndvi_series \in [1 .. n -> SimulatedGrids]}

DateStrings == {"2023-06-15", "15/06/2023"}

\* datetime.strptime(flood_date_str, '%Y-%m-%d'), in days from 2023-06-15
ParseDate(str) == IF str = "2023-06-15" THEN [kind |-> "date", days |-> 0] ELSE RaisedVal

\* d.get(key, default)
DictGet(d, key, default) == IF key \in DOMAIN d THEN d[key] ELSE default

\* f"event_{flood_date_str}_{location['lat']}_{location['lon']}", default location
EventId(str) == <<"event", str, "45.0", "25.0">>

\* the calls the handler can make for the request body
HandlerCalls ==
    CallProcessor(ProcessorClass, KaplanMeierFitter,
                  ParseDate(req_body.flood_date).days, req_body.num_time_steps)

\* the API process after its imports, with one request received
InitRequest ==
    /\ ProcessorClass \in {"V3", "V2", "None"}
    /\ KaplanMeierFitter \in BOOLEAN
    /\ processed_events = << >>
    /\ req_body \in [flood_date : DateStrings, num_time_steps : 0 .. MaxDates]
    /\ req_pc = "received"
    /\ req_results = NoneVal
    /\ response = NoneVal
    /\ SAIdle
    /\ CRMIdle
    /\ PTSIdle
    /\ IDXIdle
    /\ INSTIdle

\* lines 67-70
REQ_NoProcessor ==
    /\ req_pc = "received"
    /\ ProcessorClass = "None"
    /\ response' = [status |-> 500, body |-> [error |-> "Data processing module not available"]]
    /\ req_pc' = "responded"
    /\ UNCHANGED <<ProcessorClass, KaplanMeierFitter, processed_events, req_body, req_results>>
    /\ UNCHANGED <<sa_vars, crm_vars, pts_vars, idx_vars, inst_vars>>

\* lines 73-88: the body is read and the processor is called
REQ_Process ==
    /\ req_pc = "received"
    /\ ProcessorClass # "None"
    /\ ParseDate(req_body.flood_date) # RaisedVal
    /\ \E r \in HandlerCalls :
        /\ r # RaisedVal
        /\ req_results' = r
    /\ req_pc' = "once"
    /\ UNCHANGED <<ProcessorClass, KaplanMeierFitter, processed_events, req_body, response>>
    /\ UNCHANGED <<sa_vars, crm_vars, pts_vars, idx_vars, inst_vars>>

\* lines 100-104: the processor is called a second time
REQ_ProcessAgain ==
    /\ req_pc = "once"
    /\ \E r \in HandlerCalls :
        /\ r # RaisedVal
        /\ req_results' = r
    /\ req_pc' = "twice"
    /\ UNCHANGED <<ProcessorClass, KaplanMeierFitter, processed_events, req_body, response>>
    /\ UNCHANGED <<sa_vars, crm_vars, pts_vars, idx_vars, inst_vars>>

\* lines 106-124: the event is stored and the answer is 200
REQ_Store ==
    /\ req_pc = "twice"
    /\ LET event_id == EventId(req_body.flood_date)
           ai_metrics == DictGet(req_results, "ai_metrics", NoneVal)
       IN  /\ processed_events' =
                (event_id :> [flood_date |-> req_body.flood_date,
                              recovery_metrics |-> req_results.recovery_metrics,
                              ai_metrics |-> ai_metrics,
                              time_series |-> req_results.time_series.rows])
                    @@ processed_events
           /\ response' =
                [status |-> 200,
                 body |-> [event_id |-> event_id,
                           status |-> "processed",
                           recovery_metrics |-> req_results.recovery_metrics,
                           time_series_length |-> Len(req_results.time_series.rows)]]
    /\ req_pc' = "responded"
    /\ UNCHANGED <<ProcessorClass, KaplanMeierFitter, req_body, req_results>>
    /\ UNCHANGED <<sa_vars, crm_vars, pts_vars, idx_vars, inst_vars>>

\* lines 126-130: an exception inside the try block gives the answer 500
REQ_Fail ==
    /\ req_pc \in {"received", "once"}
    /\ ProcessorClass # "None"
    /\ \/ ParseDate(req_body.flood_date) = RaisedVal
       \/ /\ ParseDate(req_body.flood_date) # RaisedVal
          /\ RaisedVal \in HandlerCalls
    /\ response' = [status |-> 500, body |-> [error |-> "exception"]]
    /\ req_pc' = "responded"
    /\ UNCHANGED <<ProcessorClass, KaplanMeierFitter, processed_events, req_body, req_results>>
    /\ UNCHANGED <<sa_vars, crm_vars, pts_vars, idx_vars, inst_vars>>

NextRequest ==
    \/ REQ_NoProcessor
    \/ REQ_Process
    \/ REQ_ProcessAgain
    \/ REQ_Store
    \/ REQ_Fail

SpecRequest == InitRequest /\ [][NextRequest]_vars

-----------------------------------------------------------------------------
(* one processor instance: the transforms called one after the other *)

\* calculate_ndvi (fn = "ndvi") and calculate_ndwi (fn = "ndwi") as functions
\* of their two arguments
CalculateIndex(fn, a, b) ==
    Quotient(BandDifference(fn, a, b), ZeroToNaN(BandSum(a, b)))

\* self.kmf.fit(durations, event_observed=events): the fitter holds the new data
KmfFit(fitter, durations, events) ==
    [fitter EXCEPT !.fitted = [durations |-> durations, events |-> events]]

\* self.kmf.median_survival_time_ of a fitted fitter
KmfMedian(fitter) == KMMedian(fitter.fitted.durations, fitter.fitted.events)

\* the median read from the fitter whether or not this call has fitted it
MedianRecoveryFromLastFit(fit, fitter) ==
    IF fitter.fitted # NoneVal THEN KmfMedian(fitter) ELSE Num(0)

\* lines 95-100: median_recovery = 0, replaced by the fitter's median after a fit
MedianRecovery(fit, fitter) == IF fit THEN KmfMedian(fitter) ELSE Num(0)

\* run_survival_analysis on an instance whose fitter is in the given state:
\* the fitter after the call, and the returned value
InstanceSurvival(fitter, stack, baseline) ==
    IF KmfIsNone(fitter.available) THEN [kmf |-> fitter, value |-> NoneVal]
    ELSE LET shp == stack.shape
             mask == FloodMask(shp[2], shp[3])
             m == ScanFrom(InitialMatrices(shp[1], shp[2], shp[3]), stack.frames,
                           RecoveryThreshold(baseline), mask, 0, shp[1])
             flooded_t == BoolIndex(m.t, mask)
             flooded_e == BoolIndex(m.e, mask)
             fit == ShouldFit(Len(flooded_t))
             after == IF fit THEN KmfFit(fitter, flooded_t, FitEvents(flooded_e))
                      ELSE fitter
         IN  [kmf |-> after,
              value |-> [kind |-> "dict",
                         median_recovery_time |-> MedianRecovery(fit, after),
                         confidence_score |->
                            IF fit THEN Confidence(flooded_e) ELSE Num(0),
                         recovery_map |-> m.t]]

\* the argument objects of the calls: band grids of two cells, a time series
\* with a NaN cell, records around the flood date, and three stacks of two
\* frames (no flooded pixel; a flooded pixel healed in frame 1; in frame 2)
InstanceObjects ==
    [red |-> <<1, 0>>,
     nir |-> <<2, 0>>,
     green |-> <<1, 2>>,
     dates |-> <<0, 30>>,
     frames |-> << <<Num(30), Num(60)>>, <<NaNVal, Num(60)>> >>,
     water |-> <<WaterGrid>>,
     radar |-> << >>,
     series |-> <<[date |-> -30, mean_ndvi |-> 60], [date |-> 0, mean_ndvi |-> 30],
                  [date |-> 30, mean_ndvi |-> 60]>>,
     flood_date |-> 0,
     stack_dry |-> [shape |-> <<2, FloodLo, FloodLo>>,
                    frames |-> [i \in 1 .. 2 |-> [p \in Tracked(FloodLo, FloodLo) |-> 54]]],
     stack_fast |-> [shape |-> <<2, FloodLo + 1, FloodLo + 1>>,
                     frames |-> [i \in 1 .. 2 |->
                                    [p \in Tracked(FloodLo + 1, FloodLo + 1) |-> 54]]],
     stack_slow |-> [shape |-> <<2, FloodLo + 1, FloodLo + 1>>,
                     frames |-> [i \in 1 .. 2 |->
                                    [p \in Tracked(FloodLo + 1, FloodLo + 1) |->
                                        IF i = 1 THEN 40 ELSE 54]]],
     baseline_dry |-> [p \in Tracked(FloodLo, FloodLo) |-> 60],
     baseline |-> [p \in Tracked(FloodLo + 1, FloodLo + 1) |-> 60]]

\* the calls made on the instance: the transform and the names of its arguments
InstanceCalls ==
    {[fn |-> "calculate_ndvi", args |-> <<"red", "nir">>],
     [fn |-> "calculate_ndwi", args |-> <<"green", "nir">>],
     [fn |-> "process_time_series", args |-> <<"dates", "frames", "water", "radar">>],
     [fn |-> "calculate_recovery_metrics", args |-> <<"series", "flood_date">>],
     [fn |-> "run_survival_analysis", args |-> <<"stack_dry", "baseline_dry">>],
     [fn |-> "run_survival_analysis", args |-> <<"stack_fast", "baseline">>],
     [fn |-> "run_survival_analysis", args |-> <<"stack_slow", "baseline">>]}

\* the return of a call: the value, the fitter after the call, and the note
\* of what the call returned the first time and of how often it was made
InstanceReturn(call, value, fitter) ==
    /\ inst_call' = call
    /\ inst_return' = value
    /\ inst_kmf' = fitter
    /\ inst_memo' =
        IF call \in DOMAIN inst_memo
        THEN [inst_memo EXCEPT ![call].calls = IF @ < 2 THEN @ + 1 ELSE @]
        ELSE (call :> [first |-> value, calls |-> 1]) @@ inst_memo
    /\ inst_heap' = inst_heap
    /\ UNCHANGED <<sa_vars, crm_vars, pts_vars, idx_vars, req_vars>>

\* SatelliteAIProcessor(): self.kmf = KaplanMeierFitter() if KaplanMeierFitter else None
InitInstance ==
    /\ \E a \in BOOLEAN : inst_kmf = [available |-> a, fitted |-> NoneVal]
    /\ inst_heap = InstanceObjects
    /\ inst_call = NoneVal
    /\ inst_return = NoneVal
    /\ inst_memo = << >>
    /\ SAIdle
    /\ CRMIdle
    /\ PTSIdle
    /\ IDXIdle
    /\ REQIdle

INST_CalculateNdvi ==
    \E call \in InstanceCalls :
        /\ call.fn = "calculate_ndvi"
        /\ InstanceReturn(call,
                          CalculateIndex("ndvi", inst_heap[call.args[1]],
                                         inst_heap[call.args[2]]),
                          inst_kmf)

INST_CalculateNdwi ==
    \E call \in InstanceCalls :
        /\ call.fn = "calculate_ndwi"
        /\ InstanceReturn(call,
                          CalculateIndex("ndwi", inst_heap[call.args[1]],
                                         inst_heap[call.args[2]]),
                          inst_kmf)

INST_ProcessTimeSeries ==
    \E call \in InstanceCalls :
        /\ call.fn = "process_time_series"
        /\ InstanceReturn(call,
                          ProcessTimeSeries(inst_heap[call.args[1]], inst_heap[call.args[2]],
                                            inst_heap[call.args[3]], inst_heap[call.args[4]]),
                          inst_kmf)

INST_CalculateRecoveryMetrics ==
    \E call \in InstanceCalls :
        /\ call.fn = "calculate_recovery_metrics"
        /\ InstanceReturn(call,
                          CalculateRecoveryMetrics(inst_heap[call.args[1]],
                                                   inst_heap[call.args[2]]),
                          inst_kmf)

INST_RunSurvivalAnalysis ==
    \E call \in InstanceCalls :
        /\ call.fn = "run_survival_analysis"
        /\ LET r == InstanceSurvival(inst_kmf, inst_heap[call.args[1]],
                                     inst_heap[call.args[2]])
           IN  InstanceReturn(call, r.value, r.kmf)

NextInstance ==
    \/ INST_CalculateNdvi
    \/ INST_CalculateNdwi
    \/ INST_ProcessTimeSeries
    \/ INST_CalculateRecoveryMetrics
    \/ INST_RunSurvivalAnalysis

SpecInstance == InitInstance /\ [][NextInstance]_vars

-----------------------------------------------------------------------------
(* Claims about run_survival_analysis *)

\* the call returned a dictionary (the fitter was available)
SAReturned == sa_pc = "done" /\ sa_result.kind = "dict"

MaskedPixels == {p \in DOMAIN flood_mask : flood_mask[p]}

\* the pixel's NDVI at step k (1-indexed) is >= baseline x 0.9
Reaches(p, k) == 10 * ndvi_stack[k][p] >= 9 * baseline_grid[p]

\* the trajectory first reaches the threshold at step k and never drops back
CrossesAndStays(p, k) ==
    /\ Reaches(p, k)
    /\ \A j \in 1 .. (k - 1) : ~Reaches(p, j)
    /\ \A j \in (k + 1) .. shape[1] : Reaches(p, j)

NeverReaches(p) == \A j \in 1 .. shape[1] : ~Reaches(p, j)

\* C1: during the scan, a pixel whose event_observed is true keeps its
\* time_to_event and its event_observed in every later step, whatever its NDVI
\* does; a pixel whose event_observed is still false has time_to_event equal to
\* the stack length.
C1_FrozenOnceObserved ==
    [][sa_pc = "scan" =>
        \A p \in DOMAIN e_matrix :
            /\ e_matrix[p] = 1 => (t_matrix'[p] = t_matrix[p] /\ e_matrix'[p] = 1)
            /\ e_matrix[p] = 0 => t_matrix[p] = shape[1]
            /\ e_matrix'[p] = 0 => t_matrix'[p] = shape[1]]_vars

\* a pixel observed at step 1 dropped below the threshold at step 2, crossed it
\* again at step 3, and after the third step still has time_to_event 1
C1_Witness ==
    /\ sa_pc = "scan"
    /\ step = 3
    /\ \E p \in DOMAIN e_matrix :
        /\ Reaches(p, 1) /\ ~Reaches(p, 2) /\ Reaches(p, 3)
        /\ e_matrix[p] = 1
        /\ t_matrix[p] = 1

\* C2 as stated: after the call, every pixel whose trajectory first reaches the
\* threshold at step k and never drops back has time_to_event k and
\* event_observed true, and every pixel that never reaches it has time_to_event
\* num_time_steps and event_observed false.
C2_EveryPixelCrossingIsObserved ==
    SAReturned =>
        \A p \in DOMAIN e_matrix :
            /\ \A k \in 1 .. shape[1] :
                CrossesAndStays(p, k) =>
                    (sa_result.recovery_map[p] = k /\ e_matrix[p] = 1)
            /\ NeverReaches(p) =>
                    (sa_result.recovery_map[p] = shape[1] /\ e_matrix[p] = 0)

\* C2 amended: the same, for the pixels inside the flood mask in its first half.
C2_MaskedPixelCrossingIsObserved ==
    SAReturned =>
        \A p \in DOMAIN e_matrix :
            /\ \A k \in 1 .. shape[1] :
                (flood_mask[p] /\ CrossesAndStays(p, k)) =>
                    (sa_result.recovery_map[p] = k /\ e_matrix[p] = 1)
            /\ NeverReaches(p) =>
                    (sa_result.recovery_map[p] = shape[1] /\ e_matrix[p] = 0)

\* of a 3-step stack, one masked pixel crossed at step 2 and stayed, another
\* masked pixel never crossed, and the pixel outside the mask crossed at step 1
C2_Witness ==
    /\ SAReturned
    /\ shape[1] = 3
    /\ \E p, q \in MaskedPixels :
        /\ CrossesAndStays(p, 2) /\ sa_result.recovery_map[p] = 2 /\ e_matrix[p] = 1
        /\ NeverReaches(q) /\ sa_result.recovery_map[q] = 3 /\ e_matrix[q] = 0
    /\ CrossesAndStays(OutsidePixel, 1)

\* C3: with at least one flood-masked pixel, confidence_score is
\* 100 x (masked pixels with event_observed true) / (masked pixels).
C3_ConfidenceIsObservedShare ==
    (SAReturned /\ MaskedPixels # {}) =>
        sa_result.confidence_score =
            Frac(100 * Cardinality({p \in MaskedPixels : e_matrix[p] = 1}),
                 Cardinality(MaskedPixels))

\* two masked pixels, one observed and one not, and a pixel outside the mask
\* whose NDVI reached the threshold: the score is 50
C3_Witness ==
    /\ SAReturned
    /\ Cardinality(MaskedPixels) = 2
    /\ Cardinality({p \in MaskedPixels : e_matrix[p] = 1}) = 1
    /\ \E k \in 1 .. shape[1] : Reaches(OutsidePixel, k)
    /\ sa_result.confidence_score = Num(50)

\* the masked pixels still at risk at time u, an unobserved pixel being
\* censored at the stack length
C4_AtRisk(u) ==
    Cardinality({p \in MaskedPixels :
                    (IF e_matrix[p] = 1 THEN t_matrix[p] ELSE shape[1]) >= u})

C4_Events(u) == Cardinality({p \in MaskedPixels : e_matrix[p] = 1 /\ t_matrix[p] = u})

\* the Kaplan-Meier estimate at time u over the masked pixels
RECURSIVE C4_Survival(_)
C4_Survival(u) ==
    IF u < 0 THEN Num(1)
    ELSE FracMul(C4_Survival(u - 1),
                 IF C4_Events(u) = 0 THEN Num(1)
                 ELSE Frac(C4_AtRisk(u) - C4_Events(u), C4_AtRisk(u)))

C4_AtMostHalf(u) == FracLeq(C4_Survival(u), Frac(1, 2))

\* C4: with at least one flood-masked pixel, median_recovery_time is the first
\* time at which the Kaplan-Meier estimate over the masked pixels, unobserved
\* pixels censored at the stack length, is <= 0.5 (and inf when it never is).
C4_MedianIsFirstHalfTime ==
    (SAReturned /\ MaskedPixels # {}) =>
        LET m == sa_result.median_recovery_time
        IN  IF \E u \in 0 .. shape[1] : C4_AtMostHalf(u)
            THEN /\ IsNum(m)
                 /\ m.den = 1
                 /\ m.num \in 0 .. shape[1]
                 /\ C4_AtMostHalf(m.num)
                 /\ \A u \in 0 .. (m.num - 1) : ~C4_AtMostHalf(u)
            ELSE m = InfVal

\* masked pixels of which one is observed and one is censored, the estimate
\* being above 0.5 at time 0 and first at most 0.5 at the last step but one
C4_Witness ==
    /\ SAReturned
    /\ Cardinality(MaskedPixels) >= 2
    /\ \E p, q \in MaskedPixels : e_matrix[p] = 1 /\ e_matrix[q] = 0
    /\ ~C4_AtMostHalf(0)
    /\ C4_AtMostHalf(shape[1] - 1)
    /\ sa_result.median_recovery_time = Num(shape[1] - 1)
    /\ shape[1] >= 2

\* C5: when the flood mask selects no pixel, the fit is not invoked and the
\* call returns median_recovery_time 0 and confidence_score 0 as a normal result.
C5_EmptyMaskSkipsFit ==
    (sa_pc = "done" /\ kmf.available /\ MaskedPixels = {}) =>
        /\ sa_result.kind = "dict"
        /\ sa_result.median_recovery_time = Num(0)
        /\ sa_result.confidence_score = Num(0)
        /\ kmf.fits = 0

\* a grid that does not reach the flood rectangle, scanned over 2 steps in
\* which the followed pixel reached the threshold
C5_Witness ==
    /\ sa_pc = "done"
    /\ kmf.available
    /\ MaskedPixels = {}
    /\ shape[1] >= 2
    /\ Reaches(OutsidePixel, 1)
    /\ sa_result.median_recovery_time = Num(0)

\* th1 <= th2 at every pixel, for the thresholds of two baselines
ThresholdsLeq(b1, b2) ==
    \A p \in DOMAIN b1 : RecoveryThreshold(b1)[p] <= RecoveryThreshold(b2)[p]

\* C6: for a fixed stack and mask, and two recovery thresholds with th1 <= th2
\* at every pixel, the median_recovery_time under th2 is >= the one under th1.
C6_MedianMonotoneInThreshold ==
    SAReturned =>
        \A b2 \in BaselineGrids(DOMAIN baseline_grid) :
            /\ ThresholdsLeq(baseline_grid, b2) =>
                MedLeq(sa_result.median_recovery_time,
                       SurvivalAnalysis(ndvi_stack, b2, shape).median_recovery_time)
            /\ ThresholdsLeq(b2, baseline_grid) =>
                MedLeq(SurvivalAnalysis(ndvi_stack, b2, shape).median_recovery_time,
                       sa_result.median_recovery_time)

\* a stack whose median is finite under the call's thresholds and finite and
\* strictly larger under thresholds that are higher at some pixel
C6_Witness ==
    /\ SAReturned
    /\ IsNum(sa_result.median_recovery_time)
    /\ \E b2 \in BaselineGrids(DOMAIN baseline_grid) :
        /\ ThresholdsLeq(baseline_grid, b2)
        /\ LET m2 == SurvivalAnalysis(ndvi_stack, b2, shape).median_recovery_time
           IN  IsNum(m2) /\ FracLt(sa_result.median_recovery_time, m2)

\* the arguments are those of the 4-pixel scenario: baseline 0.6 and the frames
\* [0.5,0.5,0.5,0.5], [0.55,0.4,0.55,0.4], [0.6,0.6,0.6,0.6] on a 2 x 2 mask
C7_IsScenario ==
    /\ shape = <<3, 152, 152>>
    /\ \A p \in DOMAIN baseline_grid : baseline_grid[p] = 60
    /\ \A s \in 1 .. 3 :
        /\ ndvi_stack[s][<<150, 150>>] = ScenarioFrames[s][1]
        /\ ndvi_stack[s][<<150, 151>>] = ScenarioFrames[s][2]
        /\ ndvi_stack[s][<<151, 150>>] = ScenarioFrames[s][3]
        /\ ndvi_stack[s][<<151, 151>>] = ScenarioFrames[s][4]

\* C7: in the 4-pixel scenario, pixels 0 and 2 are observed with time_to_event 2,
\* pixels 1 and 3 are observed with time_to_event 3, and confidence_score is 100.
C7_ScenarioEventTimes ==
    (SAReturned /\ C7_IsScenario) =>
        /\ BoolIndex(sa_result.recovery_map, flood_mask) = <<2, 3, 2, 3>>
        /\ BoolIndex(e_matrix, flood_mask) = <<1, 1, 1, 1>>
        /\ sa_result.recovery_map[<<150, 150>>] = 2
        /\ sa_result.recovery_map[<<150, 151>>] = 3
        /\ sa_result.recovery_map[<<151, 150>>] = 2
        /\ sa_result.recovery_map[<<151, 151>>] = 3
        /\ sa_result.confidence_score = Num(100)

\* the scenario has been run to its end
C7_Witness ==
    /\ SAReturned
    /\ C7_IsScenario
    /\ Cardinality(MaskedPixels) = 4
    /\ sa_result.confidence_score = Num(100)

\* lines 86-89 applied to the single pixel p of the matrices m
C20_UpdatePixel(m, p, current_ndvi, threshold, mask, s) ==
    LET newly_healed == NewlyHealed(current_ndvi, threshold, m.e, mask)
    IN  [t |-> [m.t EXCEPT ![p] = IF p \in newly_healed THEN EventTime(s) ELSE @],
         e |-> [m.e EXCEPT ![p] = IF p \in newly_healed THEN 1 ELSE @]]

\* the pixels of one time step updated one after the other, in the given order
RECURSIVE C20_UpdateInOrder(_, _, _, _, _, _)
C20_UpdateInOrder(m, order, current_ndvi, threshold, mask, s) ==
    IF order = << >> THEN m
    ELSE C20_UpdateInOrder(C20_UpdatePixel(m, Head(order), current_ndvi, threshold, mask, s),
                           Tail(order), current_ndvi, threshold, mask, s)

\* every order of the pixels of S
RECURSIVE C20_Orders(_)
C20_Orders(S) ==
    IF S = {} THEN {<< >>}
    ELSE UNION {{<<p>> \o order : order \in C20_Orders(S \ {p})} : p \in S}

\* the final matrices of the scan for a stack, a baseline and a mask
C20_Final(stack, baseline, mask) ==
    ScanFrom(InitialMatrices(shape[1], shape[2], shape[3]), stack,
             RecoveryThreshold(baseline), mask, 0, shape[1])

\* the matrices m give pixel p the result that the scan gave it
C20_SameAt(m, p) == m.t[p] = t_matrix[p] /\ m.e[p] = e_matrix[p]

\* C20: in every iteration of the scan, updating the pixels one after the
\* other gives, in every order, the matrices of the iteration as the program
\* computes it; and in the final matrices the (time_to_event, event_observed)
\* of a pixel is unchanged when the NDVI of another pixel at any step, the
\* baseline of another pixel or the mask bit of another pixel is changed.
C20_PixelsIndependent ==
    /\ (sa_pc = "scan" /\ step < shape[1]) =>
        LET all_at_once == ScanFrame(t_matrix, e_matrix, ndvi_stack[step + 1],
                                     recovery_threshold, flood_mask, step)
        IN  \A order \in C20_Orders(DOMAIN t_matrix) :
                C20_UpdateInOrder([t |-> t_matrix, e |-> e_matrix], order,
                                  ndvi_stack[step + 1], recovery_threshold, flood_mask, step)
                    = all_at_once
    /\ SAReturned =>
        \A q \in DOMAIN t_matrix :
            /\ \A k \in 1 .. shape[1] : \A v \in Levels \ {ndvi_stack[k][q]} :
                LET m == C20_Final([ndvi_stack EXCEPT ![k][q] = v], baseline_grid, flood_mask)
                IN  \A p \in DOMAIN t_matrix \ {q} : C20_SameAt(m, p)
            /\ \A b \in BaselineLevels \ {baseline_grid[q]} :
                LET m == C20_Final(ndvi_stack, [baseline_grid EXCEPT ![q] = b], flood_mask)
                IN  \A p \in DOMAIN t_matrix \ {q} : C20_SameAt(m, p)
            /\ LET m == C20_Final(ndvi_stack, baseline_grid,
                                  [flood_mask EXCEPT ![q] = ~flood_mask[q]])
               IN  \A p \in DOMAIN t_matrix \ {q} : C20_SameAt(m, p)

\* two flooded pixels were observed in the same iteration, the second of
\* three, while the pixel outside the mask was above its threshold from the
\* first iteration on
C20_Witness ==
    /\ SAReturned
    /\ shape[1] = 3
    /\ Reaches(OutsidePixel, 1)
    /\ \E p, q \in MaskedPixels :
        /\ p # q
        /\ e_matrix[p] = 1 /\ e_matrix[q] = 1
        /\ t_matrix[p] = 2 /\ t_matrix[q] = 2

SAScanning == sa_pc \in {"scan", "done"} /\ kmf.available

UnmaskedPixels == {p \in DOMAIN flood_mask : ~flood_mask[p]}

\* what is returned when the entries of pixel p in the two matrices are
\* replaced by an observed event at step 1
C22_ReturnWithout(p) ==
    SurvivalReturn([t_matrix EXCEPT ![p] = 1], [e_matrix EXCEPT ![p] = 1], flood_mask).value

C24_ScanInvariant ==
    /\ [](SAScanning =>
            /\ step \in 0 .. shape[1]
            /\ \A p \in DOMAIN e_matrix :
                /\ e_matrix[p] \in {0, 1}
                /\ e_matrix[p] = 0 => t_matrix[p] = shape[1]
                /\ e_matrix[p] = 1 =>
                    /\ t_matrix[p] \in 1 .. step
                    /\ flood_mask[p]
                    /\ Reaches(p, t_matrix[p]))
    /\ [][SAScanning =>
            {p \in DOMAIN e_matrix : e_matrix[p] = 1}
                \subseteq {p \in DOMAIN e_matrix' : e_matrix'[p] = 1}]_vars

\* two of three steps scanned: one masked pixel observed at step 1, another
\* at step 2, and the pixel outside the mask not observed
C24_Witness ==
    /\ sa_pc = "scan"
    /\ shape[1] = 3
    /\ step = 2
    /\ e_matrix[OutsidePixel] = 0
    /\ \E p, q \in MaskedPixels :
        /\ e_matrix[p] = 1 /\ t_matrix[p] = 1
        /\ e_matrix[q] = 1 /\ t_matrix[q] = 2

-----------------------------------------------------------------------------
(* Claims about calculate_recovery_metrics *)

\* the records of the argument dated on or after the flood date
PostFloodRecords ==
    {i \in DOMAIN ndvi_time_series : ndvi_time_series[i].date >= flood_date}

MetricsFields ==
    {"recovery_rate", "time_to_recovery_days", "recovery_percentage",
     "current_ndvi", "baseline_ndvi"}

\* C8: every result of calculate_recovery_metrics, the one for a series with no
\* record on or after the flood date included, has all five fields.
C8_ResultHasFiveFields ==
    crm_pc = "done" => DOMAIN crm_result = MetricsFields

\* C9: with no record dated on or after the flood date, the call returns
\* recovery_rate 0, time_to_recovery_days null and recovery_percentage 0,
\* without running the regression.
C9_EmptyPostFloodResult ==
    (crm_pc = "done" /\ PostFloodRecords = {}) =>
        /\ crm_result.recovery_rate = Num(0)
        /\ crm_result.time_to_recovery_days = NoneVal
        /\ crm_result.recovery_percentage = Num(0)
        /\ polyfit_calls = 0

\* a series of two records, both dated before the flood date, has been processed
C9_Witness ==
    /\ crm_pc = "done"
    /\ Len(ndvi_time_series) >= 2
    /\ PostFloodRecords = {}
    /\ crm_result.time_to_recovery_days = NoneVal

\* C10: with exactly one record dated on or after the flood date, the call
\* returns recovery_rate 0 and time_to_recovery_days null, whatever that
\* record's mean_ndvi.
C10_SinglePostFloodRecord ==
    (crm_pc = "done" /\ Cardinality(PostFloodRecords) = 1) =>
        /\ crm_result.recovery_rate = Num(0)
        /\ crm_result.time_to_recovery_days = NoneVal

\* a series with records before the flood date and one record after it, whose
\* mean_ndvi is below the baseline, has been processed
C10_Witness ==
    /\ crm_pc = "done"
    /\ Len(ndvi_time_series) >= 2
    /\ \E i \in DOMAIN ndvi_time_series :
        /\ PostFloodRecords = {i}
        /\ ndvi_time_series[i].mean_ndvi < BaselineNdvi
    /\ crm_result.recovery_rate = Num(0)
    /\ crm_result.current_ndvi = Num(30)

\* the dates of the argument are in increasing order
SuppliedInDateOrder ==
    \A i, j \in DOMAIN ndvi_time_series :
        i < j => ndvi_time_series[i].date < ndvi_time_series[j].date

\* C11: for a non-empty post-flood subset, recovery_percentage is
\* min(100, 100 x current_ndvi / baseline_ndvi) when baseline_ndvi > 0 and 0
\* otherwise, hence never above 100.
C11_PercentageClamped ==
    (crm_pc = "done" /\ PostFloodRecords # {}) =>
        LET current == crm_result.current_ndvi
            baseline == crm_result.baseline_ndvi
            ratio == FracMul(Num(100), FracDiv(current, baseline))
        IN  /\ crm_result.recovery_percentage =
                    IF FracLt(Num(0), baseline)
                    THEN (IF FracLeq(Num(100), ratio) THEN Num(100) ELSE ratio)
                    ELSE Num(0)
            /\ FracLeq(crm_result.recovery_percentage, Num(100))

\* the last post-flood record is above the baseline and the percentage is 100
C11_Witness ==
    /\ crm_pc = "done"
    /\ PostFloodRecords # {}
    /\ FracLt(crm_result.baseline_ndvi, crm_result.current_ndvi)
    /\ crm_result.recovery_percentage = Num(100)

\* C12: for a non-empty post-flood subset, time_to_recovery_days is non-null
\* exactly when recovery_rate > 0 and current_ndvi < baseline_ndvi; it is then
\* (baseline_ndvi - current_ndvi) / recovery_rate, a positive number.
C12_DaysOnlyWhenRecovering ==
    (crm_pc = "done" /\ PostFloodRecords # {}) =>
        LET rate == crm_result.recovery_rate
            current == crm_result.current_ndvi
            baseline == crm_result.baseline_ndvi
            days == crm_result.time_to_recovery_days
        IN  /\ (days # NoneVal) <=> (FracLt(Num(0), rate) /\ FracLt(current, baseline))
            /\ days # NoneVal =>
                /\ IsNum(days)
                /\ days = FracDiv(FracSub(baseline, current), rate)
                /\ FracLt(Num(0), days)

\* a series rising towards the baseline got a number of days
C12_Witness ==
    /\ crm_pc = "done"
    /\ Cardinality(PostFloodRecords) >= 2
    /\ FracLt(Num(0), crm_result.recovery_rate)
    /\ IsNum(crm_result.time_to_recovery_days)

\* a series falling below the baseline got null
C12_WitnessNull ==
    /\ crm_pc = "done"
    /\ Cardinality(PostFloodRecords) >= 2
    /\ FracLt(crm_result.recovery_rate, Num(0))
    /\ FracLt(crm_result.current_ndvi, crm_result.baseline_ndvi)
    /\ crm_result.time_to_recovery_days = NoneVal

\* the post-flood record of the argument with the greatest date
LatestPostFlood ==
    CHOOSE i \in PostFloodRecords :
        \A j \in PostFloodRecords : ndvi_time_series[j].date <= ndvi_time_series[i].date

\* C13 as stated: in whatever order the records are supplied, current_ndvi is
\* the mean_ndvi of the post-flood record with the greatest date.
C13_CurrentIsLatestInAnyOrder ==
    (crm_pc = "done" /\ PostFloodRecords # {}) =>
        crm_result.current_ndvi = Num(ndvi_time_series[LatestPostFlood].mean_ndvi)

\* C13 amended: when the records are supplied in date order, current_ndvi is
\* the mean_ndvi of the post-flood record with the greatest date.
C13_CurrentIsLatestWhenOrdered ==
    (crm_pc = "done" /\ PostFloodRecords # {} /\ SuppliedInDateOrder) =>
        crm_result.current_ndvi = Num(ndvi_time_series[LatestPostFlood].mean_ndvi)

\* an ordered series with a pre-flood record and two post-flood records of
\* different mean_ndvi
C13_Witness ==
    /\ crm_pc = "done"
    /\ SuppliedInDateOrder
    /\ Len(ndvi_time_series) = 3
    /\ Cardinality(PostFloodRecords) = 2
    /\ ndvi_time_series[2].mean_ndvi # ndvi_time_series[3].mean_ndvi
    /\ ndvi_time_series[1].mean_ndvi # ndvi_time_series[3].mean_ndvi
    /\ crm_result.current_ndvi = Num(ndvi_time_series[3].mean_ndvi)

\* the argument is the scenario series
C14_IsScenario ==
    /\ Len(ndvi_time_series) = 4
    /\ \A i \in 1 .. 4 :
        /\ ndvi_time_series[i].date - flood_date = <<0, 30, 60, 90>>[i]
        /\ ndvi_time_series[i].mean_ndvi = <<30, 35, 40, 45>>[i]

\* C14: for mean_ndvi 0.3, 0.35, 0.4, 0.45 at days 0, 30, 60, 90 and baseline
\* 0.6, recovery_rate is 0.15/90 per day (15/90 in hundredths per day),
\* recovery_percentage is 75 and time_to_recovery_days is 90.
C14_ScenarioMetrics ==
    (crm_pc = "done" /\ C14_IsScenario) =>
        /\ crm_result.recovery_rate = Frac(15, 90)
        /\ crm_result.recovery_percentage = Num(75)
        /\ crm_result.time_to_recovery_days = Num(90)
        /\ crm_result.baseline_ndvi = Num(60)

\* the scenario has been processed, with one regression
C14_Witness ==
    /\ crm_pc = "done"
    /\ C14_IsScenario
    /\ polyfit_calls = 1
    /\ crm_result.current_ndvi = Num(45)

\* the records dated on or after the flood date, in the order supplied
C23_Kept == SelectSeq(ndvi_time_series, LAMBDA r : r.date >= flood_date)

C23_PreFloodIndexes ==
    {i \in DOMAIN ndvi_time_series : ndvi_time_series[i].date < flood_date}

C23_PreFloodRecords == {r \in Records : r.date < flood_date}

\* the series with record i removed, and with record r put after position k
C23_Remove(i) ==
    SubSeq(ndvi_time_series, 1, i - 1)
        \o SubSeq(ndvi_time_series, i + 1, Len(ndvi_time_series))

C23_Insert(k, r) ==
    SubSeq(ndvi_time_series, 1, k) \o <<r>>
        \o SubSeq(ndvi_time_series, k + 1, Len(ndvi_time_series))

\* the series that differ from the one supplied by one change of its
\* pre-flood records, or by the removal of all of them
C23_Edits ==
    {C23_Kept}
        \cup {C23_Remove(i) : i \in C23_PreFloodIndexes}
        \cup {[ndvi_time_series EXCEPT ![i] = r] :
                i \in C23_PreFloodIndexes, r \in C23_PreFloodRecords}
        \cup {C23_Insert(k, r) :
                k \in 0 .. Len(ndvi_time_series), r \in C23_PreFloodRecords}

\* C23: the returned metrics are made from the records with date >= flood
\* date, a record dated on the flood date included: the full result is
\* returned exactly when there is such a record, current_ndvi is the last of
\* them and recovery_rate their slope; and removing, altering or adding a
\* record dated before the flood date gives the same returned metrics.
C23_OnlyPostFloodRecordsCount ==
    crm_pc = "done" =>
        /\ C23_Kept # << >> <=> DOMAIN crm_result = MetricsFields
        /\ C23_Kept # << >> =>
            /\ crm_result.current_ndvi = Num(C23_Kept[Len(C23_Kept)].mean_ndvi)
            /\ crm_result.recovery_rate = RecoveryRate(C23_Kept, flood_date)
        /\ \A series \in C23_Edits :
            CalculateRecoveryMetrics(series, flood_date) = crm_result

\* a record dated before the flood date, supplied last, next to a record
\* dated on the flood date and a later one: the regression ran on the two
C23_Witness ==
    /\ crm_pc = "done"
    /\ Len(ndvi_time_series) = 3
    /\ ndvi_time_series[3].date < flood_date
    /\ ndvi_time_series[3].mean_ndvi # ndvi_time_series[2].mean_ndvi
    /\ \E i \in 1 .. 2 : ndvi_time_series[i].date = flood_date
    /\ Len(C23_Kept) = 2
    /\ polyfit_calls = 1
    /\ crm_result.current_ndvi = Num(ndvi_time_series[2].mean_ndvi)

-----------------------------------------------------------------------------
(* Claims about process_time_series and process_flood_event *)

PTSEntered == pts_pc \notin {"idle", "call"}

\* C15: a call of process_time_series with no dates or with no NDVI frames
\* ends in the ValueError and nothing else: no row is collected and no
\* DataFrame is returned; and process_flood_event called with
\* num_time_steps = 0 ends in that error, without a returned dictionary.
C15_EmptyInputRaises ==
    /\ (PTSEntered /\ (Len(pts_dates) = 0 \/ Len(pts_ndvi) = 0)) =>
            /\ pts_pc = "raised"
            /\ pts_results = << >>
            /\ pts_return = NoneVal
    /\ (pfe_args # NoneVal /\ pfe_pc # "call") =>
            (pfe_args.num_time_steps = 0 =>
                /\ pfe_pc \in {"series", "raised"}
                /\ pts_pc \in {"call", "raised"}
                /\ pfe_return = NoneVal)
    /\ pfe_pc = "raised" => pfe_args.num_time_steps = 0

\* process_flood_event with num_time_steps = 0 has failed with the error of
\* process_time_series
C15_Witness ==
    /\ pfe_args # NoneVal
    /\ pfe_args.num_time_steps = 0
    /\ pfe_pc = "raised"
    /\ pts_pc = "raised"
    /\ pfe_return = NoneVal

MinLen(a, b) == IF Len(a) <= Len(b) THEN Len(a) ELSE Len(b)

\* C16 as stated: the returned rows are as many as the dates, whatever the
\* lengths of the other lists, and row i carries date i.
C16_OneRowPerDate ==
    pts_pc = "done" =>
        /\ Len(pts_return.rows) = Len(pts_dates)
        /\ \A i \in 1 .. Len(pts_return.rows) : pts_return.rows[i].date = pts_dates[i]

\* C16: for non-empty input the returned rows are as many as the shorter of
\* the dates and the NDVI frames, so as many as the dates when every date has
\* an NDVI frame; row i carries date i, in the order given; a missing NDWI
\* frame or radar entry leaves None in the row and drops nothing.
C16_OneRowPerDateWithFrame ==
    pts_pc = "done" =>
        /\ Len(pts_dates) > 0 /\ Len(pts_ndvi) > 0
        /\ Len(pts_return.rows) = MinLen(pts_dates, pts_ndvi)
        /\ Len(pts_ndvi) >= Len(pts_dates) => Len(pts_return.rows) = Len(pts_dates)
        /\ \A i \in 1 .. Len(pts_return.rows) :
            /\ pts_return.rows[i].date = pts_dates[i]
            /\ pts_return.rows[i].mean_ndwi = NoneVal <=> i > Len(pts_ndwi)
            /\ pts_return.rows[i].mean_vv_backscatter = NoneVal <=> i > Len(pts_radar)

\* two dates not in date order, one NDVI frame, no NDWI frame: one row returned
C16_Witness ==
    /\ pts_pc = "done"
    /\ Len(pts_dates) = 2
    /\ pts_dates[1] > pts_dates[2]
    /\ Len(pts_ndvi) = 1
    /\ Len(pts_ndwi) = 0
    /\ Len(pts_return.rows) = 1

-----------------------------------------------------------------------------
(* Claims about calculate_ndvi and calculate_ndwi *)

\* the numerator and the denominator of the index of cell i, from the arguments
IndexNumerator(i) == IF idx_fn = "ndvi" THEN idx_b[i] - idx_a[i] ELSE idx_a[i] - idx_b[i]

IndexDenominator(i) == idx_a[i] + idx_b[i]

\* C17: a cell of the grid returned by calculate_ndvi (calculate_ndwi) is
\* not-a-number exactly when the sum of its two band values is 0; every
\* call returns, and every other cell is the number
\* (nir - red) / (nir + red) (respectively (green - nir) / (green + nir)).
C17_NaNExactlyOnZeroSum ==
    /\ idx_pc \in {"idle", "call", "summed", "masked", "done"}
    /\ idx_pc = "done" =>
        \A i \in DOMAIN idx_a :
            /\ idx_out[i] = NaNVal <=> IndexDenominator(i) = 0
            /\ IndexDenominator(i) # 0 =>
                /\ IsNum(idx_out[i])
                /\ idx_out[i].num * IndexDenominator(i) = IndexNumerator(i) * idx_out[i].den

\* calculate_ndvi has returned a grid with a cell red = 1, nir = -1 (NaN)
\* next to a cell of nonzero sum
C17_Witness ==
    /\ idx_pc = "done"
    /\ idx_fn = "ndvi"
    /\ idx_a[1] = 1 /\ idx_b[1] = -1
    /\ idx_out[1] = NaNVal
    /\ IndexDenominator(2) # 0
    /\ IsNum(idx_out[2])

\* C18: for non-negative red and nir of nonzero sum, the NDVI cell returned
\* by calculate_ndvi is a number between -1 and 1, the ends included.
C18_NdviWithinUnitInterval ==
    (idx_pc = "done" /\ idx_fn = "ndvi") =>
        \A i \in DOMAIN idx_a :
            (idx_a[i] >= 0 /\ idx_b[i] >= 0 /\ idx_a[i] + idx_b[i] # 0) =>
                /\ IsNum(idx_out[i])
                /\ FracLeq(Num(-1), idx_out[i])
                /\ FracLeq(idx_out[i], Num(1))

\* both ends are met: red = 0 < nir gives 1, and nir = 0 < red gives -1
C18_Witness ==
    /\ idx_pc = "done"
    /\ idx_fn = "ndvi"
    /\ idx_a[1] = 0 /\ idx_b[1] > 0 /\ idx_out[1] = Num(1)
    /\ idx_a[2] > 0 /\ idx_b[2] = 0 /\ idx_out[2] = Num(-1)

-----------------------------------------------------------------------------
(* Claims about the result of processing a flood event *)

SurvivalCapable == ProcessorClass = "V3" /\ KaplanMeierFitter

\* C19: whatever processor the API loaded, the result of processing a flood
\* event has its recovery_metrics; it has survival metrics exactly when the
\* V3 processor is loaded and lifelines was imported: without lifelines
\* run_survival_analysis gives None as ai_metrics, the V2 result has no
\* ai_metrics key, and in both cases the handler stores ai_metrics = None
\* and answers 200 as it does with survival metrics.
C19_SurvivalMetricsOptional ==
    /\ req_results # NoneVal =>
        /\ "recovery_metrics" \in DOMAIN req_results
        /\ "recovery_rate" \in DOMAIN req_results.recovery_metrics
        /\ ("ai_metrics" \in DOMAIN req_results /\ req_results.ai_metrics # NoneVal)
                <=> SurvivalCapable
        /\ ProcessorClass = "V2" => "ai_metrics" \notin DOMAIN req_results
        /\ (ProcessorClass = "V3" /\ ~KaplanMeierFitter) =>
                /\ "ai_metrics" \in DOMAIN req_results
                /\ req_results.ai_metrics = NoneVal
    /\ req_pc = "responded" =>
        /\ response.status = 200 <=>
                /\ ProcessorClass # "None"
                /\ req_body.flood_date = "2023-06-15"
                /\ req_body.num_time_steps > 0
        /\ response.status = 200 =>
                /\ DOMAIN processed_events = {EventId(req_body.flood_date)}
                /\ \A id \in DOMAIN processed_events :
                    /\ processed_events[id].recovery_metrics = req_results.recovery_metrics
                    /\ processed_events[id].ai_metrics = NoneVal <=> ~SurvivalCapable
        /\ response.status # 200 => DOMAIN processed_events = {}

\* the V2 processor answered 200 and the stored event has ai_metrics = None
C19_Witness ==
    /\ req_pc = "responded"
    /\ ProcessorClass = "V2"
    /\ response.status = 200
    /\ \E id \in DOMAIN processed_events : processed_events[id].ai_metrics = NoneVal

\* the V3 processor without lifelines answered 200 with ai_metrics = None stored
C19_WitnessNoFitter ==
    /\ req_pc = "responded"
    /\ ProcessorClass = "V3"
    /\ ~KaplanMeierFitter
    /\ response.status = 200
    /\ \E id \in DOMAIN processed_events : processed_events[id].ai_metrics = NoneVal

\* the V3 processor with lifelines answered 200 with survival metrics stored
C19_WitnessFitter ==
    /\ req_pc = "responded"
    /\ SurvivalCapable
    /\ response.status = 200
    /\ \E id \in DOMAIN processed_events : processed_events[id].ai_metrics # NoneVal

-----------------------------------------------------------------------------
(* Claims about the transforms as functions of their arguments *)

=============================================================================
